---- MODULE Spec2Model ----
(***************************************************************************)
(* The User resource of the two REST demo applications:                    *)
(*   - flask_demo: POST /users (create_user, User, User.to_dict) and       *)
(*     GET /health, with no storage;                                       *)
(*   - the Django api app: the User model behind UserViewSet (create,      *)
(*     list, retrieve, update, partial_update, destroy) and GET /health/.  *)
(* One HTTP exchange is one step.  `request` and `response` hold the last  *)
(* exchange served, `user` the User object create_user built while serving *)
(* it; `users`, `next_id` and `clock` are the Django database table, its   *)
(* primary-key sequence and the server's clock.                            *)
(***************************************************************************)
EXTENDS Integers, Sequences, FiniteSets, TLC

VARIABLES request, response, user, users, next_id, clock

vars == <<request, response, user, users, next_id, clock>>

(***************************************************************************)
(* Bounds of the model.                                                    *)
(***************************************************************************)
\* readings of the server clock: 0..MaxClock
MaxClock == 3
\* primary keys the sequence hands out: 1..MaxId
MaxId == 2

(***************************************************************************)
(* JSON values on the wire and Python values in the handler.  Every value  *)
(* is a record of the same shape so that values of different types can be  *)
(* compared: t is the type, s the text of a string, n the integer.         *)
(***************************************************************************)
JNull == [t |-> "null", s |-> "", n |-> 0]
JStr(x) == [t |-> "string", s |-> x, n |-> 0]
JNum(i) == [t |-> "number", s |-> "", n |-> i]

PyNone == [t |-> "None", s |-> "", n |-> 0]
PyStr(x) == [t |-> "str", s |-> x, n |-> 0]
PyInt(i) == [t |-> "int", s |-> "", n |-> i]

\* json.loads on a scalar: null -> None, "x" -> 'x', 3 -> 3
loads(j) ==
  IF j.t = "null" THEN PyNone
  ELSE IF j.t = "string" THEN PyStr(j.s)
  ELSE PyInt(j.n)

\* json.dumps on a scalar: None -> null, 'x' -> "x", 3 -> 3
dumps(p) ==
  IF p.t = "None" THEN JNull
  ELSE IF p.t = "str" THEN JStr(p.s)
  ELSE JNum(p.n)

\* str(x), as an f-string formats a field: None -> "None", 3 -> "3"
format(p) ==
  IF p.t = "None" THEN "None"
  ELSE IF p.t = "str" THEN p.s
  ELSE ToString(p.n)

\* a Python dict / JSON object: a function from a finite set of keys
EmptyDict == [k \in {} |-> JNull]
Dicts(keys, vals) == UNION {[d -> vals] : d \in SUBSET keys}

(***************************************************************************)
(* Request bodies.  kind says what request.get_json() hands the handler:   *)
(* "absent" (None: no body, or the JSON null), "object" (a dict, obj),     *)
(* "array" (a list of strings, arr) or "number" (an int, num).             *)
(***************************************************************************)
AbsentBody == [kind |-> "absent", obj |-> EmptyDict, arr |-> <<>>, num |-> 0]
ObjectBody(d) == [kind |-> "object", obj |-> d, arr |-> <<>>, num |-> 0]
ArrayBody(a) == [kind |-> "array", obj |-> EmptyDict, arr |-> a, num |-> 0]
NumberBody(i) == [kind |-> "number", obj |-> EmptyDict, arr |-> <<>>, num |-> i]

\* what a client may send as name or email, and as age
FlaskValues == {JStr("Ada"), JStr(""), JNull}
FlaskAges == {JNull, JNum(0), JNum(30)}

FlaskObjects ==
  {d \in Dicts({"name", "email", "age", "role"}, FlaskValues \cup FlaskAges) :
     /\ "name" \in DOMAIN d => d["name"] \in FlaskValues
     /\ "email" \in DOMAIN d => d["email"] \in FlaskValues
     /\ "age" \in DOMAIN d => d["age"] \in FlaskAges
     /\ "role" \in DOMAIN d => d["role"] = JStr("Ada")}

FlaskArrays == {<<>>, <<"name">>, <<"name", "email">>}

FlaskBodies ==
  {AbsentBody} \cup {ObjectBody(d) : d \in FlaskObjects}
    \cup {ArrayBody(a) : a \in FlaskArrays}
    \cup {NumberBody(i) : i \in 0..1}

\* `not data`
Falsy(data) ==
  \/ data.kind = "absent"
  \/ data.kind = "object" /\ DOMAIN data.obj = {}
  \/ data.kind = "array" /\ data.arr = <<>>
  \/ data.kind = "number" /\ data.num = 0

\* `key in data` raises TypeError when data is an int
InRaises(data) == data.kind = "number"

\* `key in data`, where it does not raise
In(key, data) ==
  IF data.kind = "object" THEN key \in DOMAIN data.obj
  ELSE IF data.kind = "array" THEN \E i \in 1..Len(data.arr) : data.arr[i] = key
  ELSE FALSE

\* data[key] raises TypeError unless data is a dict (a list takes int indices)
SubscriptRaises(data) == data.kind # "object"

\* data.get(key) with 0 for an absent key
Get_default_zero(d, key) == IF key \in DOMAIN d THEN loads(d[key]) ELSE PyInt(0)

\* data.get(key): the value, or None when the key is absent
Get(d, key) == IF key \in DOMAIN d THEN loads(d[key]) ELSE PyNone

(***************************************************************************)
(* Responses: the HTTP status, the JSON body, and kind, which names the    *)
(* shape of the body.                                                      *)
(***************************************************************************)
Response(status, kind, body) == [status |-> status, kind |-> kind, body |-> body]

NoResponse == Response(0, "none", EmptyDict)

(***************************************************************************)
(* flask_demo.models.user.User                                             *)
(***************************************************************************)
NoUser == [built |-> FALSE, name |-> PyNone, email |-> PyNone, age |-> PyNone]

User(name, email, age) ==
  [built |-> TRUE, name |-> name, email |-> email, age |-> age]

\* to_dict that answers the email under "name"
to_dict_email_as_name(self) ==
  [k \in {"name", "email", "age"} |->
     IF k = "age" THEN self.age ELSE self.email]

to_dict(self) ==
  [k \in {"name", "email", "age"} |->
     IF k = "name" THEN self.name
     ELSE IF k = "email" THEN self.email
     ELSE self.age]

\* jsonify of a dict of scalars
jsonify(d) == [k \in DOMAIN d |-> dumps(d[k])]

(***************************************************************************)
(* flask_demo.api.routes                                                   *)
(***************************************************************************)
\* an exception no handler catches: Flask answers 500
ServerError == [user |-> NoUser, response |-> Response(500, "server_error", EmptyDict)]

Required ==
  [user |-> NoUser,
   response |-> Response(400, "error", [error |-> "Name and email are required"])]

Created(u) ==
  [user |-> u,
   response |-> Response(201, "created",
                         [message |-> "User " \o format(u.name) \o " created!",
                          user |-> jsonify(to_dict(u))])]

\* create_user that asks for the fields with `and` in place of `or`
create_user_and(data) ==
  IF Falsy(data) THEN Required
  ELSE IF InRaises(data) THEN ServerError
  ELSE IF ~In("name", data) /\ ~In("email", data) THEN Required
  ELSE IF SubscriptRaises(data) THEN ServerError
  ELSE IF "name" \notin DOMAIN data.obj \/ "email" \notin DOMAIN data.obj THEN ServerError
  ELSE Created(User(loads(data.obj["name"]), loads(data.obj["email"]),
                    Get(data.obj, "age")))

\* create_user that tests the values, `not data.get('name')`, not the keys
create_user_truthy(data) ==
  IF Falsy(data) THEN Required
  ELSE IF InRaises(data) THEN ServerError
  ELSE IF SubscriptRaises(data) THEN ServerError
  ELSE IF Get(data.obj, "name") \in {PyNone, PyStr(""), PyInt(0)}
          \/ Get(data.obj, "email") \in {PyNone, PyStr(""), PyInt(0)} THEN Required
  ELSE Created(User(loads(data.obj["name"]), loads(data.obj["email"]),
                    Get(data.obj, "age")))

\* create_user: the User object it has built when it returns (NoUser when
\* it built none) and its response
create_user(data) ==
  IF Falsy(data) THEN Required
  ELSE IF InRaises(data) THEN ServerError
  ELSE IF ~In("name", data) \/ ~In("email", data) THEN Required
  ELSE IF SubscriptRaises(data) THEN ServerError
  ELSE Created(User(loads(data.obj["name"]), loads(data.obj["email"]),
                    Get(data.obj, "age")))

\* a health check that reports on the exchange before it
flask_health_check_degraded ==
  Response(200, "health",
           [status |-> IF response.status >= 400 THEN "degraded" ELSE "healthy"])

flask_health_check == Response(200, "health", [status |-> "healthy"])

FlaskRequest(op, data) == [app |-> "flask", op |-> op, data |-> data, id |-> 0]

\* POST /users that refuses the email of the creation served just before
FlaskCreateUserOnce(data) ==
  /\ request' = FlaskRequest("create_user", data)
  /\ response' =
       IF /\ request.app = "flask" /\ request.op = "create_user"
          /\ response.status = 201 /\ create_user(data).response.status = 201
          /\ data.obj["email"] = request.data.obj["email"]
       THEN Response(409, "error", [error |-> "Email already exists"])
       ELSE create_user(data).response
  /\ user' = create_user(data).user
  /\ UNCHANGED <<users, next_id, clock>>

\* POST /users
FlaskCreateUser(data) ==
  /\ request' = FlaskRequest("create_user", data)
  /\ response' = create_user(data).response
  /\ user' = create_user(data).user
  /\ UNCHANGED <<users, next_id, clock>>

\* GET /health
FlaskHealthCheck ==
  /\ request' = FlaskRequest("health_check", AbsentBody)
  /\ response' = flask_health_check
  /\ user' = NoUser
  /\ UNCHANGED <<users, next_id, clock>>

(***************************************************************************)
(* api.models.User: the table, its fields and its default ordering         *)
(***************************************************************************)
\* name = models.CharField(max_length=100)
NameMaxLength == 100

WellFormedEmails == {"ada@example.com", "bob@example.com"}

\* payloads of the Django API: JSON objects with a name, an email and a
\* created_at of the client's, each of which may be left out
DjangoNames == {JStr("Ada"), JStr(""), JNull}
DjangoEmails == {JStr(e) : e \in WellFormedEmails}
DjangoStamps == {JNum(0)}

DjangoObjects ==
  {d \in Dicts({"name", "email", "created_at"},
               DjangoNames \cup DjangoEmails \cup DjangoStamps) :
     /\ "name" \in DOMAIN d => d["name"] \in DjangoNames
     /\ "email" \in DOMAIN d => d["email"] \in DjangoEmails
     /\ "created_at" \in DOMAIN d => d["created_at"] \in DjangoStamps}

Ids == 1..MaxId

\* the row with primary key id, where there is one
Row(table, id) == CHOOSE r \in table : r.id = id

\* the rows, latest updated_at first
RECURSIVE ordering_by_updated_at(_)
ordering_by_updated_at(table) ==
  IF table = {} THEN <<>>
  ELSE LET first == CHOOSE r \in table :
                      \A q \in table : q.updated_at <= r.updated_at
       IN <<first>> \o ordering_by_updated_at(table \ {first})

\* Meta.ordering = ['-created_at']: the rows, latest created_at first
RECURSIVE ordering(_)
ordering(table) ==
  IF table = {} THEN <<>>
  ELSE LET first == CHOOSE r \in table :
                      \A q \in table : q.created_at <= r.created_at
       IN <<first>> \o ordering(table \ {first})

\* a DateTimeField that takes the clock on every save
auto_now_add_every_save(adding, old, now) == now

\* created_at = models.DateTimeField(auto_now_add=True): the clock when the
\* row is added, and what the row holds on any later save
auto_now_add(adding, old, now) == IF adding THEN now ELSE old

\* updated_at = models.DateTimeField(auto_now=True): the clock on every save
auto_now(now) == now

\* an email field without unique=True
email_taken_never(table, email, instance) == FALSE

\* email = models.EmailField(unique=True): another row holds this email
\* (instance is the primary key of the row being updated, 0 on creation)
email_taken(table, email, instance) ==
  \E r \in table : r.email = email /\ r.id # instance

\* the error of one field of a payload, "" when it validates; partial is
\* TRUE for PATCH, where an absent field is left alone
name_error(d, partial) ==
  IF "name" \notin DOMAIN d THEN (IF partial THEN "" ELSE "required")
  ELSE IF d["name"].t = "null" THEN "null"
  ELSE IF d["name"].t # "string" THEN ""
  ELSE IF d["name"].s = "" THEN "blank"
  ELSE IF Len(d["name"].s) > NameMaxLength THEN "max_length"
  ELSE ""

email_error(table, d, partial, instance) ==
  IF "email" \notin DOMAIN d THEN (IF partial THEN "" ELSE "required")
  ELSE IF d["email"].t = "null" THEN "null"
  ELSE IF d["email"].t # "string" THEN "invalid"
  ELSE IF d["email"].s = "" THEN "blank"
  ELSE IF d["email"].s \notin WellFormedEmails THEN "invalid"
  ELSE IF email_taken(table, loads(d["email"]), instance) THEN "unique"
  ELSE ""

\* age = models.IntegerField(null=True, blank=True)
age_error(d) ==
  IF "age" \notin DOMAIN d THEN ""
  ELSE IF d["age"].t = "string" THEN "invalid"
  ELSE ""

\* UserSerializer.is_valid: the fields in error, each with its error
errors(table, d, partial, instance) ==
  LET e == [f \in {"name", "email", "age"} |->
              IF f = "name" THEN name_error(d, partial)
              ELSE IF f = "email" THEN email_error(table, d, partial, instance)
              ELSE age_error(d)]
  IN [f \in {g \in DOMAIN e : e[g] # ""} |-> e[f]]

\* UserSerializer.data: the representation of a row
representation(r) ==
  [id |-> JNum(r.id), name |-> dumps(r.name), email |-> dumps(r.email),
   age |-> dumps(r.age), created_at |-> JNum(r.created_at),
   updated_at |-> JNum(r.updated_at)]

\* the field of the saved row: the validated value, else what it had
saved(d, key, old) == IF key \in DOMAIN d THEN loads(d[key]) ELSE old

BadRequest(e) == Response(400, "invalid", e)
NotFound == Response(404, "not_found", [detail |-> "Not found."])

(***************************************************************************)
(* api.views                                                               *)
(***************************************************************************)
django_health_check == Response(200, "health", [status |-> "healthy"])

\* the request served: the action of the viewset and the primary key of
\* its URL (0 where the URL has none)
DjangoRequest(op, id) == [app |-> "django", op |-> op, data |-> AbsentBody, id |-> id]

\* POST /api/users/
DjangoCreate(d) ==
  /\ request' = DjangoRequest("create", 0)
  /\ user' = NoUser
  /\ IF errors(users, d, FALSE, 0) # EmptyDict THEN
       /\ response' = BadRequest(errors(users, d, FALSE, 0))
       /\ UNCHANGED <<users, next_id, clock>>
     ELSE
       /\ next_id <= MaxId
       /\ \E later \in 0..1 :
            LET row == [id |-> next_id,
                        name |-> loads(d["name"]),
                        email |-> loads(d["email"]),
                        age |-> Get(d, "age"),
                        created_at |-> auto_now_add(TRUE, 0, clock + 1),
                        updated_at |-> auto_now(clock + 1 + later)]
            IN /\ clock + 1 + later <= MaxClock
               /\ users' = users \cup {row}
               /\ next_id' = next_id + 1
               /\ clock' = clock + 1 + later
               /\ response' = Response(201, "row", representation(row))

\* PUT (partial = FALSE) or PATCH (partial = TRUE) /api/users/<id>/
DjangoUpdate(id, d, partial) ==
  /\ request' = DjangoRequest(IF partial THEN "partial_update" ELSE "update", id)
  /\ user' = NoUser
  /\ IF ~ \E r \in users : r.id = id THEN
       /\ response' = NotFound
       /\ UNCHANGED <<users, next_id, clock>>
     ELSE IF errors(users, d, partial, id) # EmptyDict THEN
       /\ response' = BadRequest(errors(users, d, partial, id))
       /\ UNCHANGED <<users, next_id, clock>>
     ELSE
       LET old == Row(users, id)
           row == [id |-> old.id,
                   name |-> saved(d, "name", old.name),
                   email |-> saved(d, "email", old.email),
                   age |-> saved(d, "age", old.age),
                   created_at |-> auto_now_add(FALSE, old.created_at, clock + 1),
                   updated_at |-> auto_now(clock + 1)]
       IN /\ clock + 1 <= MaxClock
          /\ users' = (users \ {old}) \cup {row}
          /\ clock' = clock + 1
          /\ response' = Response(200, "row", representation(row))
          /\ UNCHANGED next_id

\* DELETE /api/users/<id>/
DjangoDestroy(id) ==
  /\ request' = DjangoRequest("destroy", id)
  /\ user' = NoUser
  /\ IF ~ \E r \in users : r.id = id THEN
       /\ response' = NotFound
       /\ UNCHANGED <<users, next_id, clock>>
     ELSE
       /\ users' = users \ {Row(users, id)}
       /\ response' = Response(204, "no_content", EmptyDict)
       /\ UNCHANGED <<next_id, clock>>

\* GET /api/users/<id>/
DjangoRetrieve(id) ==
  /\ request' = DjangoRequest("retrieve", id)
  /\ user' = NoUser
  /\ response' = IF \E r \in users : r.id = id
                 THEN Response(200, "row", representation(Row(users, id)))
                 ELSE NotFound
  /\ UNCHANGED <<users, next_id, clock>>

\* GET /api/users/
DjangoList ==
  /\ request' = DjangoRequest("list", 0)
  /\ user' = NoUser
  /\ response' = Response(200, "rows",
                          [i \in 1..Cardinality(users) |->
                             representation(ordering(users)[i])])
  /\ UNCHANGED <<users, next_id, clock>>

\* GET /health/
DjangoHealthCheck ==
  /\ request' = DjangoRequest("health_check", 0)
  /\ user' = NoUser
  /\ response' = django_health_check
  /\ UNCHANGED <<users, next_id, clock>>

(***************************************************************************)
(* The specifications: each application alone, and both side by side.      *)
(***************************************************************************)
Init ==
  /\ request = [app |-> "none", op |-> "none", data |-> AbsentBody, id |-> 0]
  /\ response = NoResponse
  /\ user = NoUser
  /\ users = {}
  /\ next_id = 1
  /\ clock = 0

NextFlask ==
  \/ \E data \in FlaskBodies : FlaskCreateUser(data)
  \/ FlaskHealthCheck

NextDjango ==
  \/ \E d \in DjangoObjects : DjangoCreate(d)
  \/ \E id \in Ids, d \in DjangoObjects, partial \in BOOLEAN : DjangoUpdate(id, d, partial)
  \/ \E id \in Ids : DjangoDestroy(id)
  \/ \E id \in Ids : DjangoRetrieve(id)
  \/ DjangoList
  \/ DjangoHealthCheck

Next ==
  \/ \E data \in FlaskBodies : FlaskCreateUser(data)
  \/ FlaskHealthCheck
  \/ \E d \in DjangoObjects : DjangoCreate(d)
  \/ \E id \in Ids, d \in DjangoObjects, partial \in BOOLEAN : DjangoUpdate(id, d, partial)
  \/ \E id \in Ids : DjangoDestroy(id)
  \/ \E id \in Ids : DjangoRetrieve(id)
  \/ DjangoList
  \/ DjangoHealthCheck

SpecFlask == Init /\ [][NextFlask]_vars

SpecDjango == Init /\ [][NextDjango]_vars

Spec == Init /\ [][Next]_vars

(***************************************************************************)
(* Properties of the Flask application                                     *)
(***************************************************************************)
FlaskCreation == request.app = "flask" /\ request.op = "create_user"

\* the body is a mapping, or there is none, and name or email is no key of it
LacksRequired(data) ==
  /\ data.kind \in {"absent", "object"}
  /\ ("name" \notin DOMAIN data.obj \/ "email" \notin DOMAIN data.obj)

\* the body is a mapping with the keys name and email
HasRequired(data) ==
  /\ data.kind = "object"
  /\ "name" \in DOMAIN data.obj
  /\ "email" \in DOMAIN data.obj

RequiredFieldsEchoed ==
  (FlaskCreation /\ HasRequired(request.data)) =>
    /\ response.status = 201
    /\ response.kind = "created"
    /\ response.body.user["name"] = request.data.obj["name"]
    /\ response.body.user["email"] = request.data.obj["email"]

\* a creation with a null name, an empty email and a key of its own succeeded
OddValuesCreated ==
  /\ FlaskCreation
  /\ HasRequired(request.data)
  /\ "role" \in DOMAIN request.data.obj
  /\ request.data.obj["name"] = JNull
  /\ request.data.obj["email"] = JStr("")
  /\ response.status = 201

\* C3: in a successful creation the age of the response is null (not 0, not
\* the empty string) when the body has no key age, and is the age of the
\* body, 0 included, when it has one.
AgeVerbatimOrNull ==
  (FlaskCreation /\ response.status = 201) =>
    IF "age" \in DOMAIN request.data.obj
    THEN response.body.user["age"] = request.data.obj["age"]
    ELSE /\ response.body.user["age"] = JNull
         /\ response.body.user["age"] # JNum(0)
         /\ response.body.user["age"] # JStr("")

\* a creation without age succeeded
CreatedWithoutAge ==
  /\ FlaskCreation
  /\ response.status = 201
  /\ "age" \notin DOMAIN request.data.obj

\* C6: every User object a creation builds, and every row of the Django
\* table, has a name that is a non-empty string and an email that is neither
\* None nor the empty string.
NameAndEmailPresent ==
  /\ user.built =>
       /\ user.name.t = "str" /\ user.name.s # ""
       /\ user.email # PyNone /\ user.email # PyStr("")
  /\ \A r \in users :
       /\ r.name.t = "str" /\ r.name.s # ""
       /\ r.email # PyNone /\ r.email # PyStr("")

\* C7: to_dict answers, for the User a creation built, a mapping whose keys
\* are exactly name, email and age, each holding the field of the User; the
\* call does not fail, and the User still holds what it was built with.
ToDictProjects ==
  (FlaskCreation /\ user.built) =>
    /\ response.status = 201
    /\ DOMAIN response.body.user = {"name", "email", "age"}
    /\ response.body.user["name"] = dumps(user.name)
    /\ response.body.user["email"] = dumps(user.email)
    /\ response.body.user["age"] = dumps(user.age)
    /\ user.name = loads(request.data.obj["name"])
    /\ user.email = loads(request.data.obj["email"])
    /\ user.age = Get(request.data.obj, "age")

\* a User whose three fields differ has been built and serialized
DistinctFieldsSerialized ==
  /\ FlaskCreation
  /\ user.built
  /\ user.name = PyStr("Ada")
  /\ user.email = PyStr("")
  /\ user.age = PyInt(30)

\* both bodies are mappings with name and email, and their emails are equal
SameEmail(d1, d2) ==
  /\ HasRequired(d1)
  /\ HasRequired(d2)
  /\ d1.obj["email"] = d2.obj["email"]

CreationIgnoresHistory ==
  (FlaskCreation /\ request'.app = "flask" /\ request'.op = "create_user") =>
    /\ request'.data = request.data => response' = response
    /\ SameEmail(request.data, request'.data) =>
         /\ response.status = 201
         /\ response'.status = 201
         /\ response'.body.user["email"] = response.body.user["email"]
    /\ UNCHANGED <<users, next_id, clock>>

\* C10: the Flask application keeps nothing between requests: a creation
\* served right after another is answered as the first was when the bodies
\* are equal, succeeds with the same email when the first succeeded and the
\* bodies share their email, and no creation writes to any storage.
FlaskStateless == [][CreationIgnoresHistory]_vars

\* a creation with an email has succeeded: the one before a second creation
\* with the same email
CreatedWithEmail ==
  /\ FlaskCreation
  /\ response.status = 201
  /\ request.data.obj["email"] = JStr("Ada")

(***************************************************************************)
(* Properties of both applications                                         *)
(***************************************************************************)
\* C4: whatever was served before, a health check of either application is
\* answered 200 with exactly the mapping {"status": "healthy"}.
HealthAlwaysHealthy ==
  request.op = "health_check" =>
    /\ response.status = 200
    /\ response.body = [status |-> "healthy"]
    /\ DOMAIN response.body = {"status"}

\* a health check of the Flask application served while the Django table
\* holds rows, that is after creations that succeeded
HealthWithRowsStored ==
  /\ request.op = "health_check"
  /\ request.app = "flask"
  /\ users # {}

(***************************************************************************)
(* Properties of the Django application                                    *)
(***************************************************************************)
DjangoServed(ops) == request'.app = "django" /\ request'.op \in ops

UniqueEmails == \A r \in users : \A q \in users : r.email = q.email => r = q

\* a creation that succeeds adds one row, whose email no row held; one that
\* is refused leaves the table as it was
CreateKeepsEmailsUnique ==
  DjangoServed({"create"}) =>
    IF response'.status = 201
    THEN /\ \A r \in users : dumps(r.email) # response'.body.email
         /\ \E row \in users' : users' = users \cup {row} /\ row \notin users
    ELSE /\ response'.status = 400
         /\ users' = users

\* C5: no two rows of the table share an email, whatever was created,
\* updated and deleted; a creation with the email of a row is refused with
\* the error "unique" and leaves every row as it was.
EmailUniqueness == []UniqueEmails /\ [][CreateKeepsEmailsUnique]_vars

\* a creation was refused because a row holds its email
DuplicateRefused ==
  /\ request.app = "django"
  /\ request.op = "create"
  /\ response.status = 400
  /\ "email" \in DOMAIN response.body
  /\ response.body["email"] = "unique"
  /\ users # {}

\* the primary keys of a sequence of rows, in its order
Pks(rows) == [i \in 1..Len(rows) |-> rows[i].id]

\* the listing holds every row once, later creations first
ListedLatestFirst ==
  LET rows == ordering(users) IN
  /\ Len(rows) = Cardinality(users)
  /\ {rows[i] : i \in 1..Len(rows)} = users
  /\ \A i \in 1..Len(rows) : \A j \in 1..Len(rows) :
       i < j => rows[i].id > rows[j].id /\ rows[i].created_at > rows[j].created_at
  /\ (request.app = "django" /\ request.op = "list") =>
       /\ response.status = 200
       /\ response.body = [i \in 1..Len(rows) |-> representation(rows[i])]

\* an update moves no row of the listing
UpdateKeepsPositions ==
  DjangoServed({"update", "partial_update"}) =>
    Pks(ordering(users')) = Pks(ordering(users))

\* C8: the listing holds all rows of the table, the latest created first,
\* whatever was created, updated and deleted, and an update of a row does
\* not move it.
ListingOrder == []ListedLatestFirst /\ [][UpdateKeepsPositions]_vars

\* two rows are listed and the one created first was updated last
OlderRowUpdatedLast ==
  /\ request.app = "django"
  /\ request.op \in {"update", "partial_update"}
  /\ response.status = 200
  /\ Cardinality(users) = 2
  /\ \E r \in users : \E q \in users :
       r.id < q.id /\ r.updated_at > q.updated_at

StampsOrdered == \A r \in users : r.created_at <= r.updated_at

\* what a step does to the timestamps
StampsKept ==
  /\ \A r \in users : \A q \in users' :
       r.id = q.id =>
         /\ q.created_at = r.created_at
         /\ q # r => q.updated_at > r.updated_at
  /\ \A q \in users' :
       (\A r \in users : r.id # q.id) =>
         /\ q.created_at > clock
         /\ q.created_at <= clock'
  /\ (DjangoServed({"update", "partial_update"}) /\ response'.status = 200) =>
       \E r \in users : \E q \in users' :
         /\ r.id = request'.id
         /\ q.id = request'.id
         /\ q.updated_at = clock'
         /\ q.updated_at > r.updated_at

\* C9: created_at is the reading of the server clock when the row was
\* created, whatever the request carried, and no update changes it;
\* updated_at takes a later reading on every update; so no row has an
\* updated_at earlier than its created_at.
Timestamps == []StampsOrdered /\ [][StampsKept]_vars

\* a row has been updated after its creation
RowUpdatedLater ==
  /\ request.app = "django"
  /\ request.op \in {"update", "partial_update"}
  /\ response.status = 200
  /\ \E r \in users : r.id = request.id /\ r.updated_at > r.created_at + 1

====
